---- MODULE Spec2Model ----
(***************************************************************************)
(* rDNS: a single-threaded recursive DNS resolver.                         *)
(*                                                                         *)
(* The module models                                                       *)
(*   - the wire codec of src/src/rdns/records.rs and domain_name.rs at the *)
(*     level of bytes (a datagram is a sequence of numbers 0..255), and    *)
(*   - the event loop Rdns::start of src/src/rdns/dns.rs: the pending      *)
(*     table id_map, the cache, the clock and the datagrams sent in each   *)
(*     iteration.                                                          *)
(*                                                                         *)
(* Conventions.  A Rust String is the sequence of its UTF-8 bytes.  A u32  *)
(* is the pair <<high 16 bits, low 16 bits>> (TLC's integers are 32-bit    *)
(* signed).  An Ipv4Addr is the tuple of its four octets.  A Result is a   *)
(* record whose field st is "Ok", "Err" or "Overflow" (the unbounded       *)
(* recursion of read_domain_name on a pointer cycle: the process dies).    *)
(***************************************************************************)
EXTENDS Integers, Sequences, FiniteSets, TLC

(***************************************************************************)
(* Bytes and readers over Cursor<&[u8]>                                    *)
(***************************************************************************)

Byte == 0..255

Hi8(n) == (n \div 256) % 256

Lo8(n) == n % 256

\* WriteBytesExt::write_u16::<BigEndian>
write_u16(n) == <<Hi8(n), Lo8(n)>>

\* WriteBytesExt::write_u32::<BigEndian> of a u32 held as <<hi16, lo16>>
write_u32(w) == write_u16(w[1]) \o write_u16(w[2])

\* A successful read: the value and the cursor's new position (0-based).
Okay(v, p) == [st |-> "Ok", val |-> v, pos |-> p]

\* A failed read (std::io::ErrorKind::UnexpectedEof, FromUtf8Error).
Fail == [st |-> "Err", val |-> <<>>, pos |-> 0]

\* read_domain_name never returns: the recursion has no bound.
Overflow == [st |-> "Overflow", val |-> <<>>, pos |-> 0]

\* ReadBytesExt::read_u8
read_u8(buf, pos) ==
    IF pos + 1 <= Len(buf) THEN Okay(buf[pos + 1], pos + 1) ELSE Fail

\* ReadBytesExt::read_u16::<BigEndian>
read_u16(buf, pos) ==
    IF pos + 2 <= Len(buf)
    THEN Okay(buf[pos + 1] * 256 + buf[pos + 2], pos + 2)
    ELSE Fail

\* ReadBytesExt::read_u32::<BigEndian>, as <<hi16, lo16>>
read_u32(buf, pos) ==
    IF pos + 4 <= Len(buf)
    THEN Okay(<<buf[pos + 1] * 256 + buf[pos + 2],
                buf[pos + 3] * 256 + buf[pos + 4]>>, pos + 4)
    ELSE Fail

\* ReadExt::read_raw: len bytes, or an error when fewer remain; read_exact
\* of no byte succeeds wherever the cursor is, and leaves it there
read_raw(buf, pos, len) ==
    IF len = 0 THEN Okay(<<>>, pos)
    ELSE IF pos + len <= Len(buf)
    THEN Okay(SubSeq(buf, pos + 1, pos + len), pos + len)
    ELSE Fail

\* ReadExt::read_ipv4: Ipv4Addr::from(read_u32), kept as its four octets
read_ipv4(buf, pos) == read_raw(buf, pos, 4)

\* ReadExt::read_ipv6: Ipv6Addr::from(read_u128), kept as its sixteen octets
read_ipv6(buf, pos) == read_raw(buf, pos, 16)

\* A UTF-8 continuation byte in lo..hi at index i of s.
Cont(s, i, lo, hi) == i <= Len(s) /\ s[i] >= lo /\ s[i] <= hi

\* String::from_utf8 accepts s from index i on (the well-formed byte
\* sequences of the Unicode standard, which is what core::str checks).
RECURSIVE IsUtf8(_, _)
IsUtf8(s, i) ==
    IF i > Len(s) THEN TRUE
    ELSE LET b == s[i] IN
      IF b <= 127 THEN IsUtf8(s, i + 1)
      ELSE IF b >= 194 /\ b <= 223
        THEN Cont(s, i + 1, 128, 191) /\ IsUtf8(s, i + 2)
      ELSE IF b = 224
        THEN Cont(s, i + 1, 160, 191) /\ Cont(s, i + 2, 128, 191)
             /\ IsUtf8(s, i + 3)
      ELSE IF (b >= 225 /\ b <= 236) \/ b = 238 \/ b = 239
        THEN Cont(s, i + 1, 128, 191) /\ Cont(s, i + 2, 128, 191)
             /\ IsUtf8(s, i + 3)
      ELSE IF b = 237
        THEN Cont(s, i + 1, 128, 159) /\ Cont(s, i + 2, 128, 191)
             /\ IsUtf8(s, i + 3)
      ELSE IF b = 240
        THEN Cont(s, i + 1, 144, 191) /\ Cont(s, i + 2, 128, 191)
             /\ Cont(s, i + 3, 128, 191) /\ IsUtf8(s, i + 4)
      ELSE IF b >= 241 /\ b <= 243
        THEN Cont(s, i + 1, 128, 191) /\ Cont(s, i + 2, 128, 191)
             /\ Cont(s, i + 3, 128, 191) /\ IsUtf8(s, i + 4)
      ELSE IF b = 244
        THEN Cont(s, i + 1, 128, 143) /\ Cont(s, i + 2, 128, 191)
             /\ Cont(s, i + 3, 128, 191) /\ IsUtf8(s, i + 4)
      ELSE FALSE

\* ReadExt::read_string_exact: len bytes that must be UTF-8
read_string_exact(buf, pos, len) ==
    LET r == read_raw(buf, pos, len) IN
    IF r.st # "Ok" THEN r
    ELSE IF IsUtf8(r.val, 1) THEN r ELSE Fail

(***************************************************************************)
(* Domain names (domain_name.rs)                                           *)
(***************************************************************************)

\* The byte of '.'
Dot == 46

\* impl ToReadableName for DomainName: labels joined with '.', "." for none
RECURSIVE JoinLabels(_)
JoinLabels(dn) ==
    IF dn = <<>> THEN <<>>
    ELSE dn[1] \o <<Dot>> \o JoinLabels(Tail(dn))

DomainName_to_domain_name(dn) ==
    IF dn = <<>> THEN <<Dot>>
    ELSE LET res == JoinLabels(dn) IN SubSeq(res, 1, Len(res) - 1)

\* impl ToDomainName for String: str::split("."), which yields one (possibly
\* empty) piece more than there are dots
RECURSIVE SplitDots(_, _)
SplitDots(s, cur) ==
    IF s = <<>> THEN <<cur>>
    ELSE IF s[1] = Dot THEN <<cur>> \o SplitDots(Tail(s), <<>>)
    ELSE SplitDots(Tail(s), Append(cur, s[1]))

String_to_domain_name(s) == SplitDots(s, <<>>)

\* impl DomainNameToBytes for DomainName: (len as u8, bytes)*, then 0
RECURSIVE DomainName_to_bytes(_)
DomainName_to_bytes(dn) ==
    IF dn = <<>> THEN <<0>>
    ELSE <<Len(dn[1]) % 256>> \o dn[1] \o DomainName_to_bytes(Tail(dn))

\* impl ReadDomainName for Cursor: labels up to a zero byte or a pointer.
\* seen holds the pointer targets of the enclosing calls: the call at one
\* target is a function of (buf, target), so meeting a target again means
\* the recursion of the source never ends.
RECURSIVE read_domain_name_at(_, _, _, _)
read_domain_name_at(buf, pos, res, seen) ==
    LET c == read_u8(buf, pos) IN
    IF c.st # "Ok" THEN Fail
    ELSE IF c.val = 0 THEN Okay(res, c.pos)
    ELSE IF c.val \div 64 = 3
      THEN LET p == read_u16(buf, c.pos - 1) IN
           IF p.st # "Ok" THEN Fail
           ELSE LET ptr == p.val % 16384 IN
                IF ptr \in seen THEN Overflow
                ELSE LET dn == read_domain_name_at(buf, ptr, <<>>,
                                                   seen \cup {ptr}) IN
                     IF dn.st # "Ok" THEN dn
                     ELSE Okay(res \o dn.val, p.pos)
    ELSE LET d == read_string_exact(buf, c.pos, c.val) IN
         IF d.st # "Ok" THEN Fail
         ELSE read_domain_name_at(buf, d.pos, Append(res, d.val), seen)

read_domain_name(buf, pos) == read_domain_name_at(buf, pos, <<>>, {})

(***************************************************************************)
(* Records (records.rs)                                                    *)
(***************************************************************************)

\* enum DNSType: the numbers the codec dispatches on
DNSType_A == 1

DNSType_NS == 2

DNSType_CNAME == 5

DNSType_MX == 15

DNSType_TXT == 16

DNSType_AAAA == 28

\* enum DNSClass
DNSClass_IN == 1

\* enum DNSRcode
DNSRcode_Refused == 5

\* DNSType::from_num as far as rdata_from_raw tells the types apart: the name
\* of the DNSRdata variant the type is decoded into
RdataKind(rtype) ==
    IF rtype = DNSType_A THEN "A"
    ELSE IF rtype = DNSType_AAAA THEN "Aaaa"
    ELSE IF rtype = DNSType_CNAME THEN "Cname"
    ELSE IF rtype = DNSType_MX THEN "Mx"
    ELSE IF rtype = DNSType_NS THEN "Ns"
    ELSE IF rtype = DNSType_TXT THEN "Txt"
    ELSE "Other"

\* enum DNSRdata: the variant and its payload
Rdata(k, v) == [kind |-> k, val |-> v]

\* DNSType::NotImplemented, which get_type turns into None
DNSType_NotImplemented == -1

\* DNSRdata::get_type: the number of the variant, NotImplemented for None
DNSRdata_get_type(rdata) ==
    IF rdata.kind = "A" THEN DNSType_A
    ELSE IF rdata.kind = "Aaaa" THEN DNSType_AAAA
    ELSE IF rdata.kind = "Cname" THEN DNSType_CNAME
    ELSE IF rdata.kind = "Mx" THEN DNSType_MX
    ELSE IF rdata.kind = "Ns" THEN DNSType_NS
    ELSE IF rdata.kind = "Txt" THEN DNSType_TXT
    ELSE DNSType_NotImplemented

\* DNSHeader::from_raw
DNSHeader_from_raw(buf, pos) ==
    IF pos + 12 > Len(buf) THEN Fail
    ELSE LET id == read_u16(buf, pos).val
             tmp1 == read_u8(buf, pos + 2).val
             tmp2 == read_u8(buf, pos + 3).val
         IN Okay([id |-> id,
                  qr |-> (tmp1 \div 128) % 2,
                  opcode |-> (tmp1 \div 8) % 16,
                  aa |-> (tmp1 \div 4) % 2,
                  tc |-> (tmp1 \div 2) % 2,
                  rd |-> tmp1 % 2,
                  ra |-> (tmp2 \div 128) % 2,
                  reserved |-> (tmp2 \div 16) % 8,
                  rcode |-> tmp2 % 16,
                  qdcount |-> read_u16(buf, pos + 4).val,
                  ancount |-> read_u16(buf, pos + 6).val,
                  nscount |-> read_u16(buf, pos + 8).val,
                  arcount |-> read_u16(buf, pos + 10).val], pos + 12)

\* DNSHeader::new
DNSHeader_new(id, is_query) ==
    [id |-> id, qr |-> IF is_query THEN 0 ELSE 1, opcode |-> 0, aa |-> 0,
     tc |-> 0, rd |-> 0, ra |-> 0, reserved |-> 0, rcode |-> 0,
     qdcount |-> 0, ancount |-> 0, nscount |-> 0, arcount |-> 0]

\* Mutant of is_query: every message passes for a query.
is_query_Always(header) == header.qr \in {0, 1}

\* DNSHeader::is_query
is_query(header) == header.qr = 0

\* DNSHeader::set_rcode
set_rcode(header, rcode) == [header EXCEPT !.rcode = rcode % 256]

\* The bits of two u8 values or-ed, bit by bit from the lowest.
RECURSIVE BitOr(_, _)
BitOr(a, b) ==
    IF a = 0 THEN b
    ELSE IF b = 0 THEN a
    ELSE (IF a % 2 = 1 \/ b % 2 = 1 THEN 1 ELSE 0)
         + 2 * BitOr(a \div 2, b \div 2)

\* x << k on a u8: the bits pushed past bit 7 are lost
RECURSIVE Shl8(_, _)
Shl8(x, k) == IF k = 0 THEN x % 256 ELSE Shl8((2 * x) % 256, k - 1)

\* DNSHeader::to_bytes: byte 2 is written from qr, opcode, aa and rd (tc is
\* not among them), byte 3 from ra, reserved and rcode
DNSHeader_to_bytes(h, qdcount, ancount, nscount, arcount) ==
    write_u16(h.id)
    \o <<BitOr(BitOr(BitOr(Shl8(h.qr, 7), Shl8(h.opcode, 3)),
                     Shl8(h.aa, 2)), h.rd)>>
    \o <<BitOr(BitOr(Shl8(h.ra, 7), Shl8(h.reserved, 4)), h.rcode)>>
    \o write_u16(qdcount) \o write_u16(ancount)
    \o write_u16(nscount) \o write_u16(arcount)

\* DNSQuestion::new
DNSQuestion_new(qname, qtype) ==
    [qname |-> qname, qtype |-> qtype, qclass |-> DNSClass_IN]

\* The operator ?: an error is returned as it is, a value is passed on.
Try(r, Then(_)) == IF r.st # "Ok" THEN r ELSE Then(r)

\* DNSQuestion::from_raw: count questions read one after the other
RECURSIVE DNSQuestion_from_raw_at(_, _, _, _)
DNSQuestion_from_raw_at(buf, pos, count, res) ==
    IF count = 0 THEN Okay(res, pos)
    ELSE Try(read_domain_name(buf, pos), LAMBDA qname :
         Try(read_u16(buf, qname.pos), LAMBDA qtype :
         Try(read_u16(buf, qtype.pos), LAMBDA qclass :
           DNSQuestion_from_raw_at(buf, qclass.pos, count - 1,
             Append(res, [qname |-> qname.val, qtype |-> qtype.val,
                          qclass |-> qclass.val])))))

DNSQuestion_from_raw(buf, pos, count) ==
    DNSQuestion_from_raw_at(buf, pos, count, <<>>)

\* Mutant of DNSQuestion_to_bytes: the class is written before the type.
DNSQuestion_to_bytes_Swapped(q) ==
    DomainName_to_bytes(q.qname) \o write_u16(q.qclass) \o write_u16(q.qtype)

\* DNSQuestion::to_bytes
DNSQuestion_to_bytes(q) ==
    DomainName_to_bytes(q.qname) \o write_u16(q.qtype) \o write_u16(q.qclass)

\* DNSResourceRecord::rdata_from_raw: rdlength, then the payload the type
\* calls for (rdlength bounds only Txt and Other)
rdata_from_raw(buf, pos, rtype) ==
    Try(read_u16(buf, pos), LAMBDA rdlength :
    Try(IF RdataKind(rtype) = "A" THEN read_ipv4(buf, rdlength.pos)
        ELSE IF RdataKind(rtype) = "Aaaa" THEN read_ipv6(buf, rdlength.pos)
        ELSE IF RdataKind(rtype) \in {"Cname", "Ns"}
          THEN read_domain_name(buf, rdlength.pos)
        ELSE IF RdataKind(rtype) = "Mx"
          THEN Try(read_u16(buf, rdlength.pos), LAMBDA pref :
               Try(read_domain_name(buf, pref.pos), LAMBDA dn :
                 Okay(<<pref.val, dn.val>>, dn.pos)))
        ELSE IF RdataKind(rtype) = "Txt"
          THEN read_string_exact(buf, rdlength.pos, rdlength.val)
        ELSE read_raw(buf, rdlength.pos, rdlength.val), LAMBDA r :
      Okay(<<rdlength.val, Rdata(RdataKind(rtype), r.val)>>, r.pos)))

\* DNSResourceRecord::from_raw
DNSResourceRecord_from_raw(buf, pos) ==
    Try(read_domain_name(buf, pos), LAMBDA name :
    Try(read_u16(buf, name.pos), LAMBDA type :
    Try(read_u16(buf, type.pos), LAMBDA class :
    Try(read_u32(buf, class.pos), LAMBDA ttl :
    Try(rdata_from_raw(buf, ttl.pos, type.val), LAMBDA rd :
      Okay([name |-> name.val, type |-> type.val, class |-> class.val,
            ttl |-> ttl.val, rdlength |-> rd.val[1], rdata |-> rd.val[2]],
           rd.pos))))))

\* DNSResourceRecord::from_raw_multi
RECURSIVE from_raw_multi_at(_, _, _, _)
from_raw_multi_at(buf, pos, count, res) ==
    IF count = 0 THEN Okay(res, pos)
    ELSE Try(DNSResourceRecord_from_raw(buf, pos), LAMBDA rr :
           from_raw_multi_at(buf, rr.pos, count - 1, Append(res, rr.val)))

from_raw_multi(buf, pos, count) == from_raw_multi_at(buf, pos, count, <<>>)

\* DNSRdata::to_bytes: the payload, preceded by its own length as a u16
DNSRdata_to_bytes(rdata) ==
    LET buf == IF rdata.kind \in {"Cname", "Ns"}
                 THEN DomainName_to_bytes(rdata.val)
               ELSE IF rdata.kind = "Mx"
                 THEN write_u16(rdata.val[1])
                      \o DomainName_to_bytes(rdata.val[2])
               ELSE rdata.val
    IN write_u16(Len(buf) % 65536) \o buf

\* DNSResourceRecord::to_bytes: the type written is the rdata variant's,
\* the stored number only for the variant Other
DNSResourceRecord_to_bytes(rr) ==
    DomainName_to_bytes(rr.name)
    \o write_u16(IF DNSRdata_get_type(rr.rdata) # DNSType_NotImplemented
                 THEN DNSRdata_get_type(rr.rdata) ELSE rr.type)
    \o write_u16(rr.class) \o write_u32(rr.ttl)
    \o DNSRdata_to_bytes(rr.rdata)

\* The bytes of a section: its items one after the other.
RECURSIVE QuestionsBytes(_)
QuestionsBytes(qs) ==
    IF qs = <<>> THEN <<>>
    ELSE DNSQuestion_to_bytes(qs[1]) \o QuestionsBytes(Tail(qs))

RECURSIVE RecordsBytes(_)
RecordsBytes(rrs) ==
    IF rrs = <<>> THEN <<>>
    ELSE DNSResourceRecord_to_bytes(rrs[1]) \o RecordsBytes(Tail(rrs))

\* DNSPacket::new
DNSPacket_new(id, query) ==
    [header |-> DNSHeader_new(id, query), questions |-> <<>>,
     answers |-> <<>>, authorities |-> <<>>, additionals |-> <<>>]

\* DNSPacket::from_raw: the header, then the four sections by its counts;
\* bytes after the last record are ignored
DNSPacket_from_raw(buf) ==
    Try(DNSHeader_from_raw(buf, 0), LAMBDA header :
    Try(DNSQuestion_from_raw(buf, header.pos, header.val.qdcount),
        LAMBDA questions :
    Try(from_raw_multi(buf, questions.pos, header.val.ancount),
        LAMBDA answers :
    Try(from_raw_multi(buf, answers.pos, header.val.nscount),
        LAMBDA authorities :
    Try(from_raw_multi(buf, authorities.pos, header.val.arcount),
        LAMBDA additionals :
      Okay([header |-> header.val, questions |-> questions.val,
            answers |-> answers.val, authorities |-> authorities.val,
            additionals |-> additionals.val], additionals.pos))))))

\* DNSPacket::assemble: the counts written are the sections' lengths
assemble(pkt) ==
    DNSHeader_to_bytes(pkt.header,
                       Len(pkt.questions) % 65536, Len(pkt.answers) % 65536,
                       Len(pkt.authorities) % 65536,
                       Len(pkt.additionals) % 65536)
    \o QuestionsBytes(pkt.questions) \o RecordsBytes(pkt.answers)
    \o RecordsBytes(pkt.authorities) \o RecordsBytes(pkt.additionals)

\* DNSPacket::id
PacketId(pkt) == pkt.header.id

(***************************************************************************)
(* Bounds of the model                                                     *)
(***************************************************************************)

\* The clock counts ticks; this many make one second.
TicksPerSec == 1

\* The clock stops advancing at MaxTime ticks.
MaxTime == 2

\* Between two clock reads of one loop iteration at most MaxStall ticks pass.
MaxStall == 2

\* At most MaxArrivals datagrams arrive at the socket.
MaxArrivals == 5

\* The buffers read_domain_name is applied to on its own have at most MaxBuf
\* bytes.
MaxBuf == 4

\* The messages the codec is applied to on its own carry at most MaxRecs
\* records.
MaxRecs == 2

\* The names the conversions are applied to on their own have at most
\* MaxLabels labels of at most MaxLabel bytes each.
MaxLabels == 2

MaxLabel == 2

(***************************************************************************)
(* The resolver (dns.rs)                                                   *)
(***************************************************************************)

VARIABLES
    id_map,   \* Rdns::id_map: txid -> RdnsData, the pending resolutions
    cache,    \* the cache of start(): <<type, name>> -> RdnsCacheEntry
    now,      \* Local::now(), in ticks
    running,  \* start() is in its loop (FALSE once the process has died)
    rcvd,     \* the datagram of the last iteration: [from, buf]
    sent,     \* what the last iteration sent, in order: [to, buf]
    branch,   \* where the last iteration ended
    arrived,  \* how many datagrams recv has returned
    net,      \* the datagrams on their way to the socket: [from, buf]
    call      \* functions of the codec applied on their own: [fn, arg, out]

vars ==
    <<id_map, cache, now, running, rcvd, sent, branch, arrived, net, call>>

\* const ROOT_SERVERS
ROOT_SERVERS ==
    << <<198, 41, 0, 4>>, <<199, 9, 14, 201>>, <<192, 33, 4, 12>>,
       <<199, 7, 91, 13>>, <<192, 203, 230, 10>>, <<192, 5, 5, 241>>,
       <<192, 112, 36, 4>>, <<198, 97, 190, 53>>, <<192, 36, 148, 17>>,
       <<192, 58, 128, 30>>, <<193, 0, 14, 129>>, <<199, 7, 83, 42>>,
       <<202, 12, 27, 33>> >>

\* The port every upstream query is sent to.
UpstreamPort == 53

\* SocketAddr::new
SocketAddr(ip, port) == [ip |-> ip, port |-> port]

\* get_a_root_addr: the addresses (0..ROOT_SERVERS.len()).rand() can pick
get_a_root_addr == {ROOT_SERVERS[i] : i \in 1..Len(ROOT_SERVERS)}

\* struct RdnsData
RdnsData(src_addr, packet_stack) ==
    [src_addr |-> src_addr, packet_stack |-> packet_stack]

\* struct RdnsCacheEntry
RdnsCacheEntry(expiration, record) ==
    [expiration |-> expiration, record |-> record]

\* HashMap::insert
MapInsert(m, k, v) == [x \in DOMAIN m \cup {k} |-> IF x = k THEN v ELSE m[x]]

\* HashMap::remove
MapRemove(m, k) == [x \in DOMAIN m \ {k} |-> m[x]]

\* Vec::last, <<>> standing for None and <<x>> for Some(x)
VecLast(v) == IF v = <<>> THEN <<>> ELSE <<v[Len(v)]>>

\* Vec::pop (only the vector left behind; nothing is popped off an empty one)
VecPop(v) == IF v = <<>> THEN <<>> ELSE SubSeq(v, 1, Len(v) - 1)

\* Rdns::send_to and Rdns::new_query: what is handed to the socket, the
\* packet assembled and the address (whether the socket takes it: Accepts)
Datagram(addr, pkt) == [to |-> addr, buf |-> assemble(pkt)]

\* The most bytes a UDP datagram over IPv4 carries: the socket refuses more.
MaxDatagram == 65507

\* UdpSocket::send_to: whether the socket takes the datagram.  It may refuse
\* any, and it refuses one of more than MaxDatagram bytes.
Accepts(dg) == IF Len(dg.buf) > MaxDatagram THEN {FALSE} ELSE {TRUE, FALSE}

\* Rdns::send_to and Rdns::new_query as the last send of an iteration that
\* has sent the datagrams before: the datagram goes out and the iteration
\* ends as br, or the socket refuses it and the error ends start().
Send(before, dg, br) ==
    \E ok \in Accepts(dg) :
      IF ok
      THEN /\ sent' = before \o <<dg>>
           /\ running' = running
           /\ branch' = br
      ELSE /\ sent' = before
           /\ running' = FALSE
           /\ branch' = "send_error"

\* Rdns::error: the packet with its rcode set (it is then sent by send_to)
error(pkt, rcode) == [pkt EXCEPT !.header = set_rcode(pkt.header, rcode)]

\* dns.rs line 71: the datagram comes from the address the entry was made for
IsCollision(original, from_addr) == original.src_addr = from_addr

\* dns.rs lines 71-73: what the sanity check sends
RefusedReply(original, from_addr, received) ==
    IF IsCollision(original, from_addr)
    THEN <<Datagram(from_addr, error(received, DNSRcode_Refused))>>
    ELSE <<>>

\* dns.rs lines 71-73: the socket has taken what the sanity check sent
RefusedSent(original, from_addr, received) ==
    \A i \in 1..Len(RefusedReply(original, from_addr, received)) :
      TRUE \in Accepts(RefusedReply(original, from_addr, received)[i])

\* dns.rs lines 71-73: received as the rest of the iteration sees it
\* (error() changes the packet in place)
AfterCheck(original, from_addr, received) ==
    IF IsCollision(original, from_addr)
    THEN error(received, DNSRcode_Refused)
    ELSE received

\* Mutant of IsSubAnswer: the stack is popped whatever it holds.
IsSubAnswer_AnyStack(original) == Len(original.packet_stack) >= 1

\* Mutant of IsSubAnswer: an answer to a sub-query is taken for the final one.
IsSubAnswer_Deeper(original) == Len(original.packet_stack) > 2

\* dns.rs line 77: the answer is for a query the resolver made itself
IsSubAnswer(original) == Len(original.packet_stack) > 1

\* The key of the cache: (type, presentation form of the owner name)
CacheKey(type, name) == <<type, DomainName_to_domain_name(name)>>

\* A u32 as a number (ttl as i64); TLC's integers hold it below 2^31.
U32ToInt(w) == w[1] * 65536 + w[2]

\* dns.rs line 100: Local::now() + Duration::seconds(ans.ttl as i64)
Expiration(t, ttl) == t + U32ToInt(ttl) * TicksPerSec

\* dns.rs line 139: Local::now() >= cached_res.expiration
IsExpired(t, expiration) == t >= expiration

\* Duration::num_seconds: whole seconds, rounded toward zero
num_seconds(d) ==
    IF d >= 0 THEN d \div TicksPerSec ELSE -((-d) \div TicksPerSec)

\* n as u32 for an i64 n of small magnitude: the low 32 bits, as <<hi, lo>>
AsU32(n) ==
    IF n >= 0 THEN <<(n \div 65536) % 65536, n % 65536>>
    ELSE <<65535 - ((((-n) - 1) \div 65536) % 65536),
           65535 - (((-n) - 1) % 65536)>>

\* dns.rs line 144: (expiration - Local::now()).num_seconds() as u32
RefreshedTtl(expiration, t) == AsU32(num_seconds(expiration - t))

\* dns.rs lines 96-104: the answers inserted one after the other, each with
\* its own reading of the clock.  The set of the possible <<cache, clock>>.
RECURSIVE InsertAnswers(_, _, _)
InsertAnswers(c, answers, t) ==
    IF answers = <<>> THEN {<<c, t>>}
    ELSE LET ans == answers[1]
             c1 == MapInsert(c, CacheKey(ans.type, ans.name),
                             RdnsCacheEntry(Expiration(t, ans.ttl), ans))
         IN IF Len(answers) = 1 THEN {<<c1, t>>}
            ELSE UNION { InsertAnswers(c1, Tail(answers), t2) :
                         t2 \in t..(IF t + MaxStall <= MaxTime
                                     THEN t + MaxStall ELSE MaxTime) }

\* Rdns::check_for_ns_addr, lines 206-213: the names of the NS records
NsNames(pkt) ==
    { DomainName_to_domain_name(pkt.authorities[i].rdata.val) :
        i \in { j \in 1..Len(pkt.authorities) :
                  /\ pkt.authorities[j].type = DNSType_NS
                  /\ pkt.authorities[j].rdata.kind = "Ns" } }

\* Mutant of GlueAddrs: the owner of an A record is not looked at.
GlueAddrs_AnyOwner(pkt) ==
    { pkt.additionals[i].rdata.val :
        i \in { j \in 1..Len(pkt.additionals) :
                  pkt.additionals[j].rdata.kind = "A" } }

\* Rdns::check_for_ns_addr, lines 214-221: the addresses of the A records of
\* the additional section whose owner is one of those names
GlueAddrs(pkt) ==
    { pkt.additionals[i].rdata.val :
        i \in { j \in 1..Len(pkt.additionals) :
                  /\ pkt.additionals[j].rdata.kind = "A"
                  /\ DomainName_to_domain_name(pkt.additionals[j].name)
                       \in NsNames(pkt) } }

\* Rdns::check_for_ns_addr: the values it can return, Left(ip) for one of
\* the glue addresses, Right(names) when there is none
check_for_ns_addr(pkt) ==
    IF GlueAddrs(pkt) = {}
    THEN {[side |-> "Right", val |-> NsNames(pkt)]}
    ELSE {[side |-> "Left", val |-> ip] : ip \in GlueAddrs(pkt)}

\* Mutant of SubQuery: the query is made under the id 0.
SubQuery_Zero(id, domain_name) ==
    [DNSPacket_new(0, TRUE) EXCEPT
       !.questions = <<DNSQuestion_new(String_to_domain_name(domain_name),
                                       DNSType_A)>>]

\* Rdns::query_for, lines 189-193: the query made for the name of an NS
SubQuery(id, domain_name) ==
    [DNSPacket_new(id, TRUE) EXCEPT
       !.questions = <<DNSQuestion_new(String_to_domain_name(domain_name),
                                       DNSType_A)>>]

\* dns.rs lines 148-154: the reply to a query the cache answers
CacheReply(received, question, rec) ==
    [header |-> DNSHeader_new(PacketId(received), FALSE),
     questions |-> <<question>>, answers |-> <<rec>>,
     authorities |-> <<>>, additionals |-> <<>>]

(***************************************************************************)
(* The datagrams the socket delivers                                       *)
(***************************************************************************)

\* A client and a name server.
Client == SocketAddr(<<192, 0, 2, 7>>, 40000)

Server == SocketAddr(<<192, 0, 2, 53>>, UpstreamPort)

Sources == {Client, Server}

\* Twelve bytes of header.
WireHeader(id, b2, b3, qd, an, ns, ar) ==
    write_u16(id) \o <<b2, b3>> \o write_u16(qd) \o write_u16(an)
    \o write_u16(ns) \o write_u16(ar)

\* The question "a. IN A", the name at offset 12.
WireQuestion == <<1, 97, 0, 0, 1, 0, 1>>

\* "a. 1s IN A 192.0.2.1", the owner a pointer to offset 12.
WireA1 == <<192, 12, 0, 1, 0, 1, 0, 0, 0, 1, 0, 4, 192, 0, 2, 1>>

\* "a. 0s IN A 192.0.2.2".
WireA2 == <<192, 12, 0, 1, 0, 1, 0, 0, 0, 0, 0, 4, 192, 0, 2, 2>>

\* "a. 1s IN CNAME n."
WireCname == <<192, 12, 0, 5, 0, 1, 0, 0, 0, 1, 0, 3, 1, 110, 0>>

\* "a. 1s IN NS n."
WireNs == <<192, 12, 0, 2, 0, 1, 0, 0, 0, 1, 0, 3, 1, 110, 0>>

\* "n. 1s IN A 192.0.2.53"
WireGlue == <<1, 110, 0, 0, 1, 0, 1, 0, 0, 0, 1, 0, 4, 192, 0, 2, 53>>

\* A client's query (RD set).
WireQuery(id) == WireHeader(id, 1, 0, 1, 0, 0, 0) \o WireQuestion

\* A query with no question.
WireNoQuestion(id) == WireHeader(id, 1, 0, 0, 0, 0, 0)

\* An authoritative answer with one A record.
WireAnswer(id) ==
    WireHeader(id, 132, 0, 1, 1, 0, 0) \o WireQuestion \o WireA1

\* A truncated (TC) answer with two A records of one owner.
WireAnswer2(id) ==
    WireHeader(id, 134, 0, 1, 2, 0, 0) \o WireQuestion \o WireA2 \o WireA1

\* An answer whose first record is a CNAME.
WireCnameAnswer(id) ==
    WireHeader(id, 132, 0, 1, 1, 0, 0) \o WireQuestion \o WireCname

\* A delegation with glue.
WireGlued(id) ==
    WireHeader(id, 128, 0, 1, 0, 1, 1) \o WireQuestion \o WireNs \o WireGlue

\* A delegation without glue.
WireGlueless(id) ==
    WireHeader(id, 128, 0, 1, 0, 1, 0) \o WireQuestion \o WireNs

\* A message with QR = 0 that carries an answer.
WireQueryAnswered(id) ==
    WireHeader(id, 0, 0, 1, 1, 0, 0) \o WireQuestion \o WireA2

\* A header that announces a question that is not there.
WireShort(id) == WireHeader(id, 1, 0, 1, 0, 0, 0)

\* A question whose name is a pointer to itself.
WireLoop(id) == WireHeader(id, 1, 0, 1, 0, 0, 0) \o <<192, 12, 0, 1, 0, 1>>

\* The first id arrives in every shape, the second in the shapes of one
\* plain resolution.
Buffers ==
    { WireQuery(1), WireNoQuestion(1), WireAnswer2(1), WireCnameAnswer(1),
      WireGlued(1), WireGlueless(1), WireQueryAnswered(1), WireShort(1),
      WireLoop(1), WireQuery(513), WireAnswer(513) }

\* Each buffer with what DNSPacket::from_raw makes of it (dns.rs line 63).
Received == { [buf |-> b, res |-> DNSPacket_from_raw(b)] : b \in Buffers }

(***************************************************************************)
(* Rdns::start: one action for each way through one iteration of the loop  *)
(***************************************************************************)

\* No function of the codec is being applied on its own.
NoCall == [fn |-> "none", arg |-> <<>>, out |-> <<>>]

\* Rdns::new and the head of start(): the table and the cache are empty.
Constructed ==
    /\ id_map = [x \in {} |-> 0]
    /\ cache = [x \in {} |-> 0]
    /\ now = 0
    /\ running = TRUE
    /\ rcvd = [from |-> SocketAddr(<<0, 0, 0, 0>>, 0), buf |-> <<>>]
    /\ sent = <<>>
    /\ branch = "start"
    /\ arrived = 0

Init ==
    /\ Constructed
    /\ net = {}
    /\ call = NoCall

\* The latest instant a further clock read of the iteration can return.
StallLimit(t) == IF t + MaxStall <= MaxTime THEN t + MaxStall ELSE MaxTime

\* Time passes while recv blocks.
Tick ==
    /\ running
    /\ now < MaxTime
    /\ now' = now + 1
    /\ sent' = <<>>
    /\ branch' = "tick"
    /\ UNCHANGED <<id_map, cache, running, rcvd, arrived>>

\* Mutant of DecodeError: the sender is told of the format error.
DecodeError_Replies(from_addr, d) ==
    /\ d.res.st = "Err"
    /\ sent' = <<Datagram(from_addr, error(DNSPacket_new(0, FALSE), 1))>>
    /\ branch' = "decode_error"
    /\ UNCHANGED <<id_map, cache, now, running>>

\* Lines 63-66: from_raw fails, continue.
DecodeError(from_addr, d) ==
    /\ d.res.st = "Err"
    /\ sent' = <<>>
    /\ branch' = "decode_error"
    /\ UNCHANGED <<id_map, cache, now, running>>

\* Line 63: from_raw does not return (read_domain_name recurses without end).
DecodeOverflow(from_addr, d) ==
    /\ d.res.st = "Overflow"
    /\ sent' = <<>>
    /\ running' = FALSE
    /\ branch' = "stack_overflow"
    /\ UNCHANGED <<id_map, cache, now>>

\* Lines 71-73: the socket refuses what the sanity check sends: the error
\* ends start() before anything else is done.
RefuseFails(from_addr, d) ==
    /\ d.res.st = "Ok"
    /\ PacketId(d.res.val) \in DOMAIN id_map
    /\ \E i \in 1..Len(RefusedReply(id_map[PacketId(d.res.val)], from_addr,
                                    d.res.val)) :
         FALSE \in Accepts(RefusedReply(id_map[PacketId(d.res.val)],
                                        from_addr, d.res.val)[i])
    /\ sent' = <<>>
    /\ running' = FALSE
    /\ branch' = "send_error"
    /\ UNCHANGED <<id_map, cache, now>>

\* Lines 69-94: an answer for a pending id whose stack holds a sub-query,
\* the first answer an A record: pop, and send the new top to that address.
SubAnswer(from_addr, d) ==
    /\ d.res.st = "Ok"
    /\ LET received == d.res.val
           id == PacketId(received)
       IN /\ id \in DOMAIN id_map
          /\ received.answers # <<>>
          /\ IsSubAnswer(id_map[id])
          /\ received.answers[1].rdata.kind = "A"
          /\ LET original == id_map[id]
                 addr == received.answers[1].rdata.val
                 popped == RdnsData(original.src_addr,
                                    VecPop(original.packet_stack))
                 top == VecLast(popped.packet_stack)
             IN /\ RefusedSent(original, from_addr, received)
                /\ id_map' = MapInsert(id_map, id, popped)
                /\ IF top = <<>>
                   THEN /\ running' = FALSE
                        /\ sent' = RefusedReply(original, from_addr, received)
                        /\ branch' = "panic"
                   ELSE Send(RefusedReply(original, from_addr, received),
                             Datagram(SocketAddr(addr, UpstreamPort), top[1]),
                             "sub_answer")
    /\ UNCHANGED <<cache, now>>

\* Mutant of SubAbandon: the entry is left in the table.
SubAbandon_Keeps(from_addr, d) ==
    /\ d.res.st = "Ok"
    /\ LET received == d.res.val
           id == PacketId(received)
       IN /\ id \in DOMAIN id_map
          /\ received.answers # <<>>
          /\ IsSubAnswer(id_map[id])
          /\ received.answers[1].rdata.kind # "A"
          /\ RefusedSent(id_map[id], from_addr, received)
          /\ id_map' = id_map
          /\ sent' = RefusedReply(id_map[id], from_addr, received)
    /\ branch' = "sub_abandon"
    /\ UNCHANGED <<cache, now, running>>

\* Lines 78-84: the first answer to a sub-query is not an A record: the
\* entry is removed.
SubAbandon(from_addr, d) ==
    /\ d.res.st = "Ok"
    /\ LET received == d.res.val
           id == PacketId(received)
       IN /\ id \in DOMAIN id_map
          /\ received.answers # <<>>
          /\ IsSubAnswer(id_map[id])
          /\ received.answers[1].rdata.kind # "A"
          /\ RefusedSent(id_map[id], from_addr, received)
          /\ id_map' = MapRemove(id_map, id)
          /\ sent' = RefusedReply(id_map[id], from_addr, received)
    /\ branch' = "sub_abandon"
    /\ UNCHANGED <<cache, now, running>>

\* Lines 95-107: an answer to the original query: cache every answer,
\* remove the entry, send the packet to the client.
FinalAnswer(from_addr, d) ==
    /\ d.res.st = "Ok"
    /\ LET received == d.res.val
           id == PacketId(received)
       IN /\ id \in DOMAIN id_map
          /\ received.answers # <<>>
          /\ ~IsSubAnswer(id_map[id])
          /\ RefusedSent(id_map[id], from_addr, received)
          /\ \E ct \in InsertAnswers(cache, received.answers, now) :
               /\ cache' = ct[1]
               /\ now' = ct[2]
          /\ id_map' = MapRemove(id_map, id)
          /\ Send(RefusedReply(id_map[id], from_addr, received),
                  Datagram(id_map[id].src_addr,
                           AfterCheck(id_map[id], from_addr, received)),
                  "final_answer")

\* Lines 110-117: no answer, no name server: the packet goes to the client
\* and the entry is removed.
ForwardEmpty(from_addr, d) ==
    /\ d.res.st = "Ok"
    /\ LET received == d.res.val
           id == PacketId(received)
       IN /\ id \in DOMAIN id_map
          /\ received.answers = <<>>
          /\ \E r \in check_for_ns_addr(received) :
               /\ r.side = "Right"
               /\ r.val = {}
          /\ RefusedSent(id_map[id], from_addr, received)
          /\ id_map' = MapRemove(id_map, id)
          /\ Send(RefusedReply(id_map[id], from_addr, received),
                  Datagram(id_map[id].src_addr,
                           AfterCheck(id_map[id], from_addr, received)),
                  "forward_empty")
    /\ UNCHANGED <<cache, now>>

\* Lines 118-119 and query_for: name servers without glue: a query for the
\* address of one of them goes to a root server and then, when it has gone,
\* onto the stack.
Glueless(from_addr, d) ==
    /\ d.res.st = "Ok"
    /\ LET received == d.res.val
           id == PacketId(received)
       IN /\ id \in DOMAIN id_map
          /\ received.answers = <<>>
          /\ RefusedSent(id_map[id], from_addr, received)
          /\ \E r \in check_for_ns_addr(received) :
               /\ r.side = "Right"
               /\ \E n \in r.val :
                    LET pkt == SubQuery(id, n)
                        refused == RefusedReply(id_map[id], from_addr,
                                                received)
                        query == Datagram(SocketAddr(<<>>, UpstreamPort), pkt)
                    IN /\ \E root \in get_a_root_addr :
                            Send(refused, [query EXCEPT !.to.ip = root],
                                 "glueless")
                       /\ id_map' = IF branch' = "glueless"
                                     THEN MapInsert(id_map, id,
                                            RdnsData(id_map[id].src_addr,
                                              Append(id_map[id].packet_stack,
                                                     pkt)))
                                     ELSE id_map
    /\ UNCHANGED <<cache, now>>

\* Mutant of Glued: the referral is not followed.
Glued_Drops(from_addr, d) ==
    /\ d.res.st = "Ok"
    /\ LET received == d.res.val
           id == PacketId(received)
       IN /\ id \in DOMAIN id_map
          /\ received.answers = <<>>
          /\ \E r \in check_for_ns_addr(received) : r.side = "Left"
          /\ RefusedSent(id_map[id], from_addr, received)
          /\ sent' = RefusedReply(id_map[id], from_addr, received)
    /\ branch' = "glued"
    /\ UNCHANGED <<id_map, cache, now, running>>

\* Lines 121-124: glue: the top of the stack goes to the address.
Glued(from_addr, d) ==
    /\ d.res.st = "Ok"
    /\ LET received == d.res.val
           id == PacketId(received)
       IN /\ id \in DOMAIN id_map
          /\ received.answers = <<>>
          /\ RefusedSent(id_map[id], from_addr, received)
          /\ \E r \in check_for_ns_addr(received) :
               /\ r.side = "Left"
               /\ LET top == VecLast(id_map[id].packet_stack) IN
                  IF top = <<>>
                  THEN /\ running' = FALSE
                       /\ sent' = RefusedReply(id_map[id], from_addr, received)
                       /\ branch' = "panic"
                  ELSE Send(RefusedReply(id_map[id], from_addr, received),
                            Datagram(SocketAddr(r.val, UpstreamPort), top[1]),
                            "glued")
    /\ UNCHANGED <<id_map, cache, now>>

\* Lines 129-131: not pending and not a query: continue.
DropResponse(from_addr, d) ==
    /\ d.res.st = "Ok"
    /\ PacketId(d.res.val) \notin DOMAIN id_map
    /\ ~is_query(d.res.val.header)
    /\ sent' = <<>>
    /\ branch' = "drop_response"
    /\ UNCHANGED <<id_map, cache, now, running>>

\* Lines 132-134: not pending, a query that carries answers: continue.
DropAnswered(from_addr, d) ==
    /\ d.res.st = "Ok"
    /\ PacketId(d.res.val) \notin DOMAIN id_map
    /\ is_query(d.res.val.header)
    /\ d.res.val.answers # <<>>
    /\ sent' = <<>>
    /\ branch' = "drop_answered"
    /\ UNCHANGED <<id_map, cache, now, running>>

\* Line 136: received.questions[0] on a message without questions: the
\* index is out of bounds and the thread panics.
NoQuestion(from_addr, d) ==
    /\ d.res.st = "Ok"
    /\ PacketId(d.res.val) \notin DOMAIN id_map
    /\ is_query(d.res.val.header)
    /\ d.res.val.answers = <<>>
    /\ d.res.val.questions = <<>>
    /\ sent' = <<>>
    /\ running' = FALSE
    /\ branch' = "panic"
    /\ UNCHANGED <<id_map, cache, now>>

\* Lines 137-157: the cache holds the first question's key and the entry has
\* not expired: the record goes to the sender with its TTL computed from a
\* second reading of the clock.
CacheHit(from_addr, d) ==
    /\ d.res.st = "Ok"
    /\ LET received == d.res.val
           id == PacketId(received)
       IN /\ id \notin DOMAIN id_map
          /\ is_query(received.header)
          /\ received.answers = <<>>
          /\ received.questions # <<>>
          /\ LET question == received.questions[1]
                 key == CacheKey(question.qtype, question.qname)
             IN /\ key \in DOMAIN cache
                /\ ~IsExpired(now, cache[key].expiration)
                /\ \E t2 \in now..StallLimit(now) :
                     /\ now' = t2
                     /\ Send(<<>>,
                          Datagram(from_addr,
                            CacheReply(received, question,
                              [cache[key].record EXCEPT
                                 !.ttl = RefreshedTtl(cache[key].expiration,
                                                      t2)])),
                          "cache_hit")
    /\ UNCHANGED <<id_map, cache>>

\* Lines 137-171: the cache does not answer (an expired entry is removed):
\* the entry is made and the packet goes to a root server.
NewQuery(from_addr, d) ==
    /\ d.res.st = "Ok"
    /\ LET received == d.res.val
           id == PacketId(received)
       IN /\ id \notin DOMAIN id_map
          /\ is_query(received.header)
          /\ received.answers = <<>>
          /\ received.questions # <<>>
          /\ LET question == received.questions[1]
                 key == CacheKey(question.qtype, question.qname)
                 entry == RdnsData(from_addr, <<received>>)
             IN /\ key \in DOMAIN cache => IsExpired(now, cache[key].expiration)
                /\ cache' = IF key \in DOMAIN cache
                            THEN MapRemove(cache, key) ELSE cache
                /\ id_map' = MapInsert(id_map, id, entry)
                /\ LET query == Datagram(SocketAddr(<<>>, UpstreamPort),
                                         VecLast(entry.packet_stack)[1])
                   IN \E root \in get_a_root_addr :
                        Send(<<>>, [query EXCEPT !.to.ip = root],
                             IF key \in DOMAIN cache
                             THEN "cache_expired" ELSE "cache_miss")
    /\ UNCHANGED now

\* Lines 61-172: one iteration of the loop on one datagram.
Recv(from_addr, d) ==
    /\ running
    /\ rcvd' = [from |-> from_addr, buf |-> d.buf]
    /\ arrived' = arrived + 1
    /\ \/ DecodeError(from_addr, d)
       \/ DecodeOverflow(from_addr, d)
       \/ RefuseFails(from_addr, d)
       \/ SubAnswer(from_addr, d)
       \/ SubAbandon(from_addr, d)
       \/ FinalAnswer(from_addr, d)
       \/ ForwardEmpty(from_addr, d)
       \/ Glueless(from_addr, d)
       \/ Glued(from_addr, d)
       \/ DropResponse(from_addr, d)
       \/ DropAnswered(from_addr, d)
       \/ NoQuestion(from_addr, d)
       \/ CacheHit(from_addr, d)
       \/ NewQuery(from_addr, d)

\* Line 61: recv returns the next datagram. Any source may send any of the
\* datagrams at any time; after MaxArrivals of them no more arrive.
Arrive ==
    /\ arrived < MaxArrivals
    /\ \E from_addr \in Sources, d \in Received : Recv(from_addr, d)

Next ==
    \/ Tick /\ UNCHANGED <<net, call>>
    \/ Arrive /\ UNCHANGED <<net, call>>

Spec == Init /\ [][Next]_vars

(***************************************************************************)
(* The codec on its own: each function applied once to an input drawn from *)
(* a bounded set                                                           *)
(***************************************************************************)

\* The sequences of at most n elements of S.
SeqsUpTo(S, n) == UNION { [1..k -> S] : k \in 0..n }

\* Calls to be made: what is applied, and the argument of the first call.
\* out collects what the calls return, one after the other.
ToCall(fn, arg) == [fn |-> fn, arg |-> arg, out |-> <<>>]

\* The bytes the names are made of: the end of a name, two label lengths, a
\* letter and the first byte of a pointer (the byte after it is the target).
NameBytes == {0, 1, 2, 97, 192}

\* read_domain_name: a buffer and the position of the cursor in it.
NameCalls ==
    { ToCall("read_domain_name", <<buf, pos>>) :
        buf \in SeqsUpTo(NameBytes, MaxBuf), pos \in 0..MaxBuf }

\* Every value of the flags of a header, under one id.
Headers ==
    [id : {513}, qr : 0..1, opcode : 0..15, aa : 0..1, tc : 0..1, rd : 0..1,
     ra : 0..1, reserved : 0..7, rcode : 0..15,
     qdcount : {1}, ancount : {2}, nscount : {0}, arcount : {258}]

\* DNSHeader::to_bytes, and DNSHeader::from_raw of what it wrote.
HeaderCalls == { ToCall("header", h) : h \in Headers }

\* The question ". CH AAAA".
WireQuestionRoot == <<0, 0, 28, 0, 3>>

\* The question "a. IN MX", the name a pointer to offset 12.
WireQuestionPtr == <<192, 12, 0, 15, 0, 1>>

\* "n. IN AAAA 2001:db8::1"; the rdlength says 20, sixteen bytes are read.
WireAaaa ==
    <<1, 110, 0, 0, 28, 0, 1, 1, 2, 3, 4, 0, 20,
      32, 1, 13, 184, 0, 0, 0, 0, 0, 0, 0, 0, 0, 0, 0, 1>>

\* "a. IN MX 10 n.", the owner a pointer.
WireMx == <<192, 12, 0, 15, 0, 1, 0, 0, 0, 60, 0, 5, 0, 10, 1, 110, 0>>

\* ". IN TXT" of the two bytes of one accented letter.
WireTxt == <<0, 0, 16, 0, 1, 0, 0, 1, 0, 0, 2, 195, 169>>

\* A record of type 99 and class 255 whose owner is one label of 64 bytes
\* (a length byte with the bits 01), the TTL all ones.
WireOther ==
    <<64>> \o [i \in 1..64 |-> 97]
    \o <<0, 0, 99, 0, 255, 255, 255, 255, 255, 0, 3, 0, 192, 12>>

\* The records the messages are made of.
WireRecords ==
    {WireA1, WireAaaa, WireCname, WireMx, WireNs, WireTxt, WireOther}

\* Bytes 2 and 3 of a header and the questions that follow it.
WireHeads ==
    { <<1, 0, <<WireQuestion>>>>,
      <<134, 181, <<WireQuestion, WireQuestionPtr>>>>,
      <<125, 131, <<>>>>,
      <<0, 0, <<WireQuestionRoot>>>> }

\* The byte sequences of a list one after the other.
RECURSIVE Concat(_)
Concat(seqs) == IF seqs = <<>> THEN <<>> ELSE seqs[1] \o Concat(Tail(seqs))

\* The message of a head and of records of which the first an are answers,
\* the next ns authorities and the rest additionals.
WireMessage(id, head, rs, an, ns) ==
    WireHeader(id, head[1], head[2], Len(head[3]), an, ns, Len(rs) - an - ns)
    \o Concat(head[3]) \o Concat(rs)

\* The messages: every head with every list of records, cut into the three
\* sections at every two places.
Messages ==
    { WireMessage(7, c[1], c[2], c[3], c[4]) :
        c \in { x \in WireHeads \X SeqsUpTo(WireRecords, MaxRecs)
                       \X (0..MaxRecs) \X (0..MaxRecs) :
                  x[3] + x[4] <= Len(x[2]) } }

\* DNSPacket::from_raw, DNSPacket::assemble, DNSPacket::from_raw again.
RoundTripCalls == { ToCall("round_trip", b) : b \in Messages }

\* "a. 1s IN NS n.m."
WireNsNm == <<192, 12, 0, 2, 0, 1, 0, 0, 0, 1, 0, 5, 1, 110, 1, 109, 0>>

\* "a. 1s IN NS ."
WireNsRoot == <<192, 12, 0, 2, 0, 1, 0, 0, 0, 1, 0, 1, 0>>

\* An A record, 192.0.2.54, whose owner is the one label "n.m".
WireGlueDot ==
    <<3, 110, 46, 109, 0, 0, 1, 0, 1, 0, 0, 0, 1, 0, 4, 192, 0, 2, 54>>

\* "x. 1s IN A 192.0.2.99": the address of no name server.
WireGlueX == <<1, 120, 0, 0, 1, 0, 1, 0, 0, 0, 1, 0, 4, 192, 0, 2, 99>>

\* The records of the authority sections and of the additional sections.
WireAuthorities == {WireNs, WireNsNm, WireNsRoot, WireGlue}

WireAdditionals == {WireGlue, WireGlueDot, WireGlueX, WireAaaa, WireNs}

\* The referrals: up to MaxRecs records in each of the two sections.
Referrals ==
    { WireMessage(7, <<128, 0, <<WireQuestion>>>>, c[1] \o c[2], 0, Len(c[1])) :
        c \in SeqsUpTo(WireAuthorities, MaxRecs)
                \X SeqsUpTo(WireAdditionals, MaxRecs) }

\* DNSPacket::from_raw, then Rdns::check_for_ns_addr on the packet.
NsAddrCalls == { ToCall("check_for_ns_addr", b) : b \in Referrals }

\* The bytes the labels are made of: a letter and the dot.
LabelBytes == {97, Dot}

\* to_domain_name of a DomainName (the presentation form), then
\* to_domain_name of that String (the labels): the names of at most MaxLabels
\* labels, the root, empty labels and labels with a dot among them.
DomainNameCalls ==
    { ToCall("to_domain_name", dn) :
        dn \in SeqsUpTo(SeqsUpTo(LabelBytes, MaxLabel), MaxLabels) }

CodecInit ==
    /\ Constructed
    /\ net = {}
    /\ call \in NameCalls \cup HeaderCalls \cup RoundTripCalls
                \cup NsAddrCalls \cup DomainNameCalls

\* A call returns.
Return(out) ==
    /\ call' = [call EXCEPT !.out = Append(call.out, out)]
    /\ UNCHANGED <<id_map, cache, now, running, rcvd, sent, branch, arrived,
                   net>>

\* read_domain_name on a cursor at arg[2] of the buffer arg[1]
Call_read_domain_name ==
    /\ call.fn = "read_domain_name"
    /\ call.out = <<>>
    /\ Return(read_domain_name(call.arg[1], call.arg[2]))

\* DNSHeader::to_bytes with the counts of the header, then DNSHeader::from_raw
Call_header ==
    /\ call.fn = "header"
    /\ call.out = <<>>
    /\ LET h == call.arg
           bytes == DNSHeader_to_bytes(h, h.qdcount, h.ancount, h.nscount,
                                       h.arcount)
       IN Return([bytes |-> bytes, back |-> DNSHeader_from_raw(bytes, 0)])

\* DNSPacket::from_raw: of the argument, and in a round trip of what
\* assemble has made of the packet
Call_from_raw ==
    \/ /\ call.fn \in {"round_trip", "check_for_ns_addr"}
       /\ call.out = <<>>
       /\ Return(DNSPacket_from_raw(call.arg))
    \/ /\ call.fn = "round_trip"
       /\ Len(call.out) = 2
       /\ Return(DNSPacket_from_raw(call.out[2]))

\* DNSPacket::assemble of the packet from_raw returned
Call_assemble ==
    /\ call.fn = "round_trip"
    /\ Len(call.out) = 1
    /\ call.out[1].st = "Ok"
    /\ Return(assemble(call.out[1].val))

\* Rdns::check_for_ns_addr of the packet from_raw returned
Call_check_for_ns_addr ==
    /\ call.fn = "check_for_ns_addr"
    /\ Len(call.out) = 1
    /\ call.out[1].st = "Ok"
    /\ \E r \in check_for_ns_addr(call.out[1].val) : Return(r)

\* <DomainName as ToReadableName>::to_domain_name of the labels
Call_DomainName_to_domain_name ==
    /\ call.fn = "to_domain_name"
    /\ call.out = <<>>
    /\ Return(DomainName_to_domain_name(call.arg))

\* <String as ToDomainName>::to_domain_name of the presentation form
Call_String_to_domain_name ==
    /\ call.fn = "to_domain_name"
    /\ Len(call.out) = 1
    /\ Return(String_to_domain_name(call.out[1]))

CodecNext ==
    \/ Call_DomainName_to_domain_name
    \/ Call_String_to_domain_name
    \/ Call_read_domain_name
    \/ Call_header
    \/ Call_from_raw
    \/ Call_assemble
    \/ Call_check_for_ns_addr

CodecSpec == CodecInit /\ [][CodecNext]_vars

(***************************************************************************)
(* One resolution with upstreams that behave: a client sends one query,    *)
(* every server asked replies with a referral with glue or with an answer, *)
(* and every datagram in flight is delivered                               *)
(***************************************************************************)

\* The name servers below the root: the first may refer to the second.
Servers == << <<192, 0, 2, 53>>, <<192, 0, 2, 54>> >>

\* The servers a server may refer to: the ones further down.
Below(ip) ==
    IF ip \in get_a_root_addr THEN {Servers[1], Servers[2]}
    ELSE IF ip = Servers[1] THEN {Servers[2]}
    ELSE {}

\* A referral to the name server n. with its address.
WireReferral(id, ip) ==
    WireHeader(id, 128, 0, 1, 0, 1, 1) \o WireQuestion \o WireNs
    \o <<1, 110, 0, 0, 1, 0, 1, 0, 0, 0, 1, 0, 4>> \o ip

\* What the server a query was sent to may reply: an answer, or a referral
\* to a server further down, under the id of the query.
RepliesTo(dg) ==
    LET id == dg.buf[1] * 256 + dg.buf[2] IN
    {WireAnswer(id), WireAnswer2(id)}
    \cup {WireReferral(id, ip) : ip \in Below(dg.to.ip)}

\* The datagrams that come back for what an iteration sent: a reply from
\* the server for a query sent upstream, nothing for a reply to the client.
Upstream(s) ==
    IF s = <<>> \/ s[Len(s)].to.port # UpstreamPort THEN {{}}
    ELSE { {[from |-> s[Len(s)].to, buf |-> b]} : b \in RepliesTo(s[Len(s)]) }

\* Every datagram that can be in flight, decoded as line 64 decodes it.
InFlight ==
    LET bufs == UNION { {WireQuery(id), WireAnswer(id), WireAnswer2(id),
                         WireReferral(id, Servers[1]),
                         WireReferral(id, Servers[2])} : id \in {1, 513} }
    IN [b \in bufs |-> DNSPacket_from_raw(b)]

\* The client's query is on its way.
LiveInit ==
    /\ Constructed
    /\ call = NoCall
    /\ \E id \in {1, 513} : net = {[from |-> Client, buf |-> WireQuery(id)]}

\* Line 61: recv returns a datagram that was in flight, and the iteration
\* runs on it; no datagram is lost, so the socket takes what is sent and the
\* server asked sends its reply.
Deliver(m) ==
    /\ Recv(m.from, [buf |-> m.buf, res |-> InFlight[m.buf]])
    /\ branch' # "send_error"
    /\ \E r \in Upstream(sent') : net' = (net \ {m}) \cup r
    /\ UNCHANGED call

LiveNext ==
    \/ Tick /\ UNCHANGED <<net, call>>
    \/ \E m \in net : Deliver(m)

\* recv returns every datagram that arrives: the loop has nothing else to do.
LiveSpec ==
    LiveInit /\ [][LiveNext]_vars /\ WF_vars(\E m \in net : Deliver(m))

(***************************************************************************)
(* Properties                                                              *)
(***************************************************************************)

\* What from_raw made of the buffer b of an iteration.
Rx(b) == (CHOOSE d \in Received : d.buf = b).res

\* The step is an iteration of the loop (not the passing of time).
Iteration == branch' # "tick"

\* The socket has taken what the step sent: no send of the step has ended
\* start() with its error.
Taken == branch' # "send_error"

\* The step is an iteration on a datagram that decodes.
Decoded == Iteration /\ Rx(rcvd'.buf).st = "Ok"

\* The packet and the id of the datagram of the step.
RxPkt == Rx(rcvd'.buf).val

RxId == PacketId(RxPkt)

\* The step is an iteration on a decoded datagram whose id was pending.
OnPending == Decoded /\ RxId \in DOMAIN id_map

\* The step is an iteration on a decoded datagram whose id was not pending.
OnFresh == Decoded /\ RxId \notin DOMAIN id_map

\* A record but for its rdlength (which the encoder computes anew).
Fields(rr) ==
    [name |-> rr.name, type |-> rr.type, class |-> rr.class,
     ttl |-> rr.ttl, rdata |-> rr.rdata]

AllFields(rrs) == [i \in 1..Len(rrs) |-> Fields(rrs[i])]

\* The bytes buf are a message with the id, the questions and the records
\* of the packet pkt.
Carries(buf, pkt) ==
    LET m == DNSPacket_from_raw(buf) IN
    /\ m.st = "Ok"
    /\ m.val.header.id = pkt.header.id
    /\ m.val.questions = pkt.questions
    /\ AllFields(m.val.answers) = AllFields(pkt.answers)
    /\ AllFields(m.val.authorities) = AllFields(pkt.authorities)
    /\ AllFields(m.val.additionals) = AllFields(pkt.additionals)

\* The step sends the datagram of index i to addr with rcode Refused.
IsRefusal(dg, addr) ==
    /\ dg.to = addr
    /\ DNSPacket_from_raw(dg.buf).st = "Ok"
    /\ DNSPacket_from_raw(dg.buf).val.header.rcode = DNSRcode_Refused

\* The first question of the datagram of the step and its cache key.
RxQuestion == RxPkt.questions[1]

RxKey == <<RxQuestion.qtype, DomainName_to_domain_name(RxQuestion.qname)>>

\* The step looks the first question up in the cache.
Lookup ==
    /\ OnFresh
    /\ RxPkt.header.qr = 0
    /\ RxPkt.answers = <<>>
    /\ RxPkt.questions # <<>>

\* C1 (as claimed): a datagram for a pending id from the address of the
\* entry is answered with rcode Refused (the socket taking what is sent)
\* and leaves the entry as it was.
C1_CollisionKeepsEntry ==
    [][ (OnPending /\ Taken /\ id_map[RxId].src_addr = rcvd'.from)
        => /\ \E i \in 1..Len(sent') : IsRefusal(sent'[i], rcvd'.from)
           /\ RxId \in DOMAIN id_map'
           /\ id_map'[RxId] = id_map[RxId] ]_vars

\* C2 (as claimed): whatever the datagram, the loop goes on to read the next
\* one and the entries of the other ids stay.
C2_LoopSurvives ==
    [][ Iteration
        => /\ running'
           /\ \A k \in DOMAIN id_map :
                (Rx(rcvd'.buf).st # "Ok" \/ k # RxId) => k \in DOMAIN id_map'
      ]_vars

\* C3 (as claimed): an answer for a pending id whose stack holds one packet:
\* every answer's key is in the cache, holding the last answer of that key
\* with the expiration a clock reading of the step plus its TTL; the message
\* is sent, with the rcode it came with, to the entry's address; the entry
\* is gone.
C3_FinalAnswer ==
    [][ (OnPending /\ RxPkt.answers # <<>>
         /\ Len(id_map[RxId].packet_stack) = 1)
        => /\ \A i \in 1..Len(RxPkt.answers) :
                LET ans == RxPkt.answers[i]
                    key == <<ans.type, DomainName_to_domain_name(ans.name)>>
                IN /\ key \in DOMAIN cache'
                   /\ (\A j \in (i + 1)..Len(RxPkt.answers) :
                         <<RxPkt.answers[j].type,
                           DomainName_to_domain_name(RxPkt.answers[j].name)>>
                           # key)
                      => /\ cache'[key].record = ans
                         /\ \E t \in now..now' :
                              cache'[key].expiration
                                = t + U32ToInt(ans.ttl) * TicksPerSec
           /\ \E i \in 1..Len(sent') :
                /\ sent'[i].to = id_map[RxId].src_addr
                /\ Carries(sent'[i].buf, RxPkt)
                /\ DNSPacket_from_raw(sent'[i].buf).val.header.rcode
                     = RxPkt.header.rcode
           /\ RxId \notin DOMAIN id_map' ]_vars

\* C4 (as claimed): a query for a fresh id whose first question has a live
\* cache entry: one datagram is sent, to the sender, with the id, QR = 1,
\* that question and the cached record as the one answer; the pending table
\* is unchanged.
C4_CacheHit ==
    [][ (Lookup /\ RxKey \in DOMAIN cache
         /\ now < cache[RxKey].expiration)
        => /\ Len(sent') = 1
           /\ sent'[1].to = rcvd'.from
           /\ LET m == DNSPacket_from_raw(sent'[1].buf) IN
              /\ m.st = "Ok"
              /\ m.val.header.id = RxId
              /\ m.val.header.qr = 1
              /\ m.val.questions = <<RxQuestion>>
              /\ Len(m.val.answers) = 1
              /\ [Fields(m.val.answers[1]) EXCEPT !.ttl = <<0, 0>>]
                   = [Fields(cache[RxKey].record) EXCEPT !.ttl = <<0, 0>>]
              /\ m.val.authorities = <<>>
              /\ m.val.additionals = <<>>
           /\ id_map' = id_map ]_vars

\* C5 (as claimed): the expiration of an entry is a clock reading of the
\* step that made it plus the record's TTL; and a lookup at or after the
\* expiration sends no reply to the sender, removes the entry, makes the
\* pending entry and sends the query to a root server.
C5_NoStaleServe ==
    [][ /\ \A k \in DOMAIN cache' :
             (k \notin DOMAIN cache \/ cache'[k] # cache[k])
             => \E t0 \in now..now' :
                  cache'[k].expiration
                    = t0 + U32ToInt(cache'[k].record.ttl) * TicksPerSec
        /\ (Lookup /\ RxKey \in DOMAIN cache
            /\ now >= cache[RxKey].expiration)
           => /\ RxKey \notin DOMAIN cache'
              /\ RxId \in DOMAIN id_map'
              /\ id_map'[RxId] = RdnsData(rcvd'.from, <<RxPkt>>)
              /\ \A i \in 1..Len(sent') : sent'[i].to # rcvd'.from
              /\ Len(sent') = 1
              /\ sent'[1].to.port = UpstreamPort
              /\ \E i \in 1..Len(ROOT_SERVERS) :
                   sent'[1].to.ip = ROOT_SERVERS[i]
              /\ Carries(sent'[1].buf, RxPkt)
              /\ DNSPacket_from_raw(sent'[1].buf).val.header.qr = 0
      ]_vars

\* The larger of two numbers.
Max(a, b) == IF a >= b THEN a ELSE b

\* C6 (as claimed): the TTL sent on a cache hit is the whole seconds from an
\* instant of the hit to the expiration, never less than 0; so it is no
\* greater than the TTL received.
C6_TtlMonotone ==
    [][ (Lookup /\ Taken /\ RxKey \in DOMAIN cache
         /\ now < cache[RxKey].expiration)
        => LET ttl == DNSPacket_from_raw(sent'[1].buf).val.answers[1].ttl
               r == cache[RxKey].record.ttl
           IN /\ \E t \in now..now' :
                   ttl = AsU32(Max(0, num_seconds(cache[RxKey].expiration
                                                  - t)))
              /\ ttl[1] < r[1] \/ (ttl[1] = r[1] /\ ttl[2] <= r[2]) ]_vars

\* C7: every pending entry has a stack of at least one packet.
C7_StackNonEmpty ==
    \A id \in DOMAIN id_map : Len(id_map[id].packet_stack) >= 1

\* C7 happens: a sub-answer has popped a stack and the entry is still there.
C7_Witness ==
    /\ branch = "sub_answer"
    /\ PacketId(Rx(rcvd.buf).val) \in DOMAIN id_map
    /\ Len(id_map[PacketId(Rx(rcvd.buf).val)].packet_stack) = 1

\* C8: a cache entry is made or changed only by an iteration on a datagram
\* for a pending id whose stack holds one packet, and it holds a record of
\* that datagram's answer section.
C8_OnlyFinalAnswersCached ==
    [][ \A k \in DOMAIN cache' :
          (k \notin DOMAIN cache \/ cache'[k] # cache[k])
          => /\ OnPending
             /\ Len(id_map[RxId].packet_stack) = 1
             /\ \E i \in 1..Len(RxPkt.answers) :
                  RxPkt.answers[i] = cache'[k].record ]_vars

\* C8 happens: the cache holds a record while a sub-resolution's answer has
\* just been processed.
C8_Witness ==
    /\ branch = "sub_answer"
    /\ DOMAIN cache # {}

\* C9: a datagram from_raw rejects: nothing is sent, the pending table and
\* the cache are as before.
C9_MalformedDropped ==
    [][ (Iteration /\ Rx(rcvd'.buf).st = "Err")
        => /\ sent' = <<>>
           /\ id_map' = id_map
           /\ cache' = cache ]_vars

\* C9 happens: a malformed datagram has arrived while an entry was pending
\* and the cache was not empty.
C9_Witness ==
    /\ branch = "decode_error"
    /\ DOMAIN id_map # {}
    /\ DOMAIN cache # {}

\* C10: a decoded datagram for an id that is not pending, a response or
\* with answers: nothing is sent, no entry is made, the cache is as before.
C10_UnmatchedDropped ==
    [][ (OnFresh /\ (RxPkt.header.qr = 1 \/ RxPkt.answers # <<>>))
        => /\ sent' = <<>>
           /\ id_map' = id_map
           /\ cache' = cache ]_vars

\* C10 happens: a response has arrived for an id whose entry had been
\* removed by an earlier answer (the cache holds that answer).
C10_Witness ==
    /\ branch = "drop_response"
    /\ DOMAIN cache # {}
    /\ Rx(rcvd.buf).val.answers # <<>>

\* C11 (as claimed): read_domain_name returns, with a name or with an error,
\* on every buffer, one whose pointers form a cycle included.
C11_DecodeTerminates ==
    (call.fn = "read_domain_name" /\ call.out # <<>>)
    => call.out[1].st \in {"Ok", "Err"}

\* C12 (as claimed): byte 2 of the header written is
\* qr<<7 | opcode<<3 | aa<<2 | tc<<1 | rd, byte 3 is
\* ra<<7 | reserved<<4 | rcode, and from_raw of the bytes gives every field
\* of the header back, tc included.
C12_HeaderLayout ==
    (call.fn = "header" /\ call.out # <<>>)
    => LET h == call.arg IN
       /\ call.out[1].bytes[3]
            = h.qr * 128 + h.opcode * 8 + h.aa * 4 + h.tc * 2 + h.rd
       /\ call.out[1].bytes[4] = h.ra * 128 + h.reserved * 16 + h.rcode
       /\ call.out[1].back.st = "Ok"
       /\ call.out[1].back.val = h

\* The fields of a header the encoder writes from the header itself.
Flags(h) ==
    [id |-> h.id, qr |-> h.qr, opcode |-> h.opcode, aa |-> h.aa,
     rd |-> h.rd, ra |-> h.ra, reserved |-> h.reserved, rcode |-> h.rcode]

\* The round trip of a message from_raw accepts has been made.
RoundTripDone ==
    /\ call.fn = "round_trip"
    /\ Len(call.out) = 3

\* C13: a buffer from_raw accepts: from_raw accepts what assemble makes of
\* the packet, and the two packets have the same id, flags (but for tc),
\* opcode and rcode, the same questions and, section by section, records of
\* the same owner, type, class, TTL and rdata.
C13_RoundTrip ==
    RoundTripDone
    => /\ call.out[3].st = "Ok"
       /\ LET m == call.out[1].val
              again == call.out[3].val
          IN /\ Flags(again.header) = Flags(m.header)
             /\ again.questions = m.questions
             /\ AllFields(again.answers) = AllFields(m.answers)
             /\ AllFields(again.authorities) = AllFields(m.authorities)
             /\ AllFields(again.additionals) = AllFields(m.additionals)

\* C13 happens: a message with the tc flag, two questions and two records,
\* one with a compressed owner and one whose rdlength is not the length of
\* its rdata, has made the round trip.
C13_Witness ==
    /\ RoundTripDone
    /\ call.out[3].st = "Ok"
    /\ call.out[1].val.header.tc = 1
    /\ Len(call.out[1].val.questions) = 2
    /\ Len(call.out[1].val.answers) = 1
    /\ Len(call.out[1].val.additionals) = 1
    /\ call.out[1].val.answers[1].rdata.kind = "Mx"
    /\ call.out[1].val.additionals[1].rdlength = 20
    /\ call.out[3].val.additionals[1].rdlength = 16
    /\ Len(call.out[2]) # Len(call.arg)

\* The target names of the NS records of the authority section of a packet,
\* in presentation form.
NsTargets(pkt) ==
    { DomainName_to_domain_name(pkt.authorities[j].rdata.val) :
        j \in { n \in 1..Len(pkt.authorities) :
                  pkt.authorities[n].type = DNSType_NS } }

\* The addresses of the A records of the additional section of a packet
\* whose owner, in presentation form, is one of those names.
GlueOf(pkt) ==
    { pkt.additionals[i].rdata.val :
        i \in { n \in 1..Len(pkt.additionals) :
                  /\ pkt.additionals[n].type = DNSType_A
                  /\ DomainName_to_domain_name(pkt.additionals[n].name)
                       \in NsTargets(pkt) } }

\* The step is an iteration on a decoded datagram for a pending id that does
\* not come from the address the entry was made for.
FromUpstream == OnPending /\ id_map[RxId].src_addr # rcvd'.from

\* The stack of the entry of the datagram's id, before the step.
RxStack == id_map[RxId].packet_stack

\* The datagram dg is the packet pkt on its way to port 53 of ip.
IsQueryTo(dg, ips, pkt) ==
    /\ dg.to.port = UpstreamPort
    /\ dg.to.ip \in ips
    /\ Carries(dg.buf, pkt)
    /\ DNSPacket_from_raw(dg.buf).val.header.qr = pkt.header.qr

\* The packet of the datagram of the last iteration.
Got == DNSPacket_from_raw(rcvd.buf).val

\* The answer has been handed to the client: the last iteration received a
\* message with answers, sent it to the client, its answers' keys are in the
\* cache and the entry of its id is gone.
Answered ==
    /\ branch = "final_answer"
    /\ Got.answers # <<>>
    /\ Len(sent) = 1
    /\ sent[1].to = Client
    /\ Carries(sent[1].buf, Got)
    /\ \A i \in 1..Len(Got.answers) :
         CacheKey(Got.answers[i].type, Got.answers[i].name) \in DOMAIN cache
    /\ PacketId(Got) \notin DOMAIN id_map

\* C14: with one client query, no loss and upstreams that reply with a
\* referral with glue or an answer: each referral makes the engine send the
\* client's packet to port 53 of the glue address, and eventually the answer
\* is sent to the client, cached, and the entry removed.
C14_ResolutionCompletes ==
    /\ [][ (branch' # "tick"
            /\ DNSPacket_from_raw(rcvd'.buf).val.answers = <<>>
            /\ GlueOf(DNSPacket_from_raw(rcvd'.buf).val) # {})
           => /\ Len(sent') = 1
              /\ IsQueryTo(sent'[1], GlueOf(DNSPacket_from_raw(rcvd'.buf).val),
                           DNSPacket_from_raw(WireQuery(
                               PacketId(DNSPacket_from_raw(rcvd'.buf).val))).val)
         ]_vars
    /\ <>Answered

\* C14 happens: the answer has come from the second name server, which the
\* engine can only have learnt of from a referral, and has been handed to
\* the client.
C14_Witness ==
    /\ Answered
    /\ rcvd.from = SocketAddr(Servers[2], UpstreamPort)
    /\ net = {}

\* C15 (as claimed): an answer from upstream whose first record is an A
\* record, for an id whose stack holds n > 1 packets: the entry stays with
\* the first n - 1 packets, one datagram is sent, the packet now on top, to
\* port 53 of the record's address, and the cache is as before.
C15_SubAnswerPop ==
    [][ (FromUpstream /\ Len(RxStack) > 1 /\ RxPkt.answers # <<>>
         /\ RxPkt.answers[1].type = DNSType_A)
        => /\ RxId \in DOMAIN id_map'
           /\ id_map'[RxId].src_addr = id_map[RxId].src_addr
           /\ id_map'[RxId].packet_stack
                = SubSeq(RxStack, 1, Len(RxStack) - 1)
           /\ Len(sent') = 1
           /\ IsQueryTo(sent'[1], {RxPkt.answers[1].rdata.val},
                        RxStack[Len(RxStack) - 1])
           /\ cache' = cache ]_vars

\* C16: an answer from upstream whose first record is not an A record, for
\* an id whose stack holds more than one packet: the entry is removed,
\* nothing is sent and the cache is as before.
C16_SubQueryAbandoned ==
    [][ (FromUpstream /\ Len(RxStack) > 1 /\ RxPkt.answers # <<>>
         /\ RxPkt.answers[1].type # DNSType_A)
        => /\ RxId \notin DOMAIN id_map'
           /\ sent' = <<>>
           /\ cache' = cache ]_vars

\* C16 happens: a CNAME has arrived from upstream as the answer to a
\* sub-query, and nothing has been sent.
C16_Witness ==
    /\ branch = "sub_abandon"
    /\ sent = <<>>
    /\ Rx(rcvd.buf).val.answers[1].type = DNSType_CNAME
    /\ PacketId(Rx(rcvd.buf).val) \notin DOMAIN id_map

\* C17 (as claimed): a datagram without answers for a pending id that names
\* name servers and gives the address of none: the stack grows by one
\* packet, a query (QR = 0) with the id and the one question "IN A" for a
\* name whose presentation form is one of the NS targets, and that packet is
\* sent to port 53 of a root server.
C17_GluelessPush ==
    [][ (OnPending /\ RxPkt.answers = <<>> /\ GlueOf(RxPkt) = {}
         /\ NsTargets(RxPkt) # {})
        => /\ RxId \in DOMAIN id_map'
           /\ id_map'[RxId].src_addr = id_map[RxId].src_addr
           /\ Len(id_map'[RxId].packet_stack) = Len(RxStack) + 1
           /\ SubSeq(id_map'[RxId].packet_stack, 1, Len(RxStack)) = RxStack
           /\ LET q == id_map'[RxId].packet_stack[Len(RxStack) + 1] IN
              /\ q.header.id = RxId
              /\ q.header.qr = 0
              /\ Len(q.questions) = 1
              /\ q.questions[1].qtype = DNSType_A
              /\ q.questions[1].qclass = DNSClass_IN
              /\ DomainName_to_domain_name(q.questions[1].qname)
                   \in NsTargets(RxPkt)
              /\ q.answers = <<>>
              /\ q.authorities = <<>>
              /\ q.additionals = <<>>
              /\ \E i \in 1..Len(sent') :
                   /\ IsQueryTo(sent'[i],
                                {ROOT_SERVERS[r] : r \in 1..Len(ROOT_SERVERS)},
                                q)
                   /\ sent'[i].buf = assemble(q) ]_vars

\* C18 (as claimed): a datagram without answers from upstream for a pending
\* id that gives the address of a name server: one datagram is sent, the
\* packet on top of the stack, to port 53 of such an address; the entry and
\* the cache are as before.
C18_GluedForward ==
    [][ (FromUpstream /\ RxPkt.answers = <<>> /\ GlueOf(RxPkt) # {})
        => /\ Len(sent') = 1
           /\ IsQueryTo(sent'[1], GlueOf(RxPkt), RxStack[Len(RxStack)])
           /\ RxId \in DOMAIN id_map'
           /\ id_map'[RxId] = id_map[RxId]
           /\ cache' = cache ]_vars

\* check_for_ns_addr has returned on a decoded message.
NsAddrDone ==
    /\ call.fn = "check_for_ns_addr"
    /\ Len(call.out) = 2

\* C19: check_for_ns_addr returns an address exactly when the additional
\* section has an A record owned by the target of an NS record of the
\* authority section, and then the address of such a record; otherwise it
\* returns the set of the NS targets.
C19_NsAddrHelper ==
    NsAddrDone
    => LET pkt == call.out[1].val
           r == call.out[2]
       IN /\ r.side \in {"Left", "Right"}
          /\ r.side = "Left" <=> GlueOf(pkt) # {}
          /\ r.side = "Left" => r.val \in GlueOf(pkt)
          /\ r.side = "Right" => r.val = NsTargets(pkt)

\* C19 happens: an address has been returned for a message with two NS
\* records whose additional section holds an AAAA record of a name server
\* and an A record of a name server.
C19_Witness ==
    /\ NsAddrDone
    /\ call.out[2].side = "Left"
    /\ Cardinality(NsTargets(call.out[1].val)) = 2
    /\ Len(call.out[1].val.additionals) = 2
    /\ call.out[1].val.additionals[1].type = DNSType_AAAA
    /\ DomainName_to_domain_name(call.out[1].val.additionals[1].name)
         \in NsTargets(call.out[1].val)
    /\ call.out[1].val.additionals[2].type = DNSType_A

\* C20 (as claimed): a query for a fresh id whose first question has no
\* cache entry, or one that has expired: the entry of the id is made with
\* the sender and the one packet received, one datagram is sent, that
\* packet, to port 53 of a root server, and the other entries are as before.
C20_NewResolution ==
    [][ (Lookup /\ (RxKey \in DOMAIN cache => now >= cache[RxKey].expiration))
        => /\ DOMAIN id_map' = DOMAIN id_map \cup {RxId}
           /\ id_map'[RxId] = RdnsData(rcvd'.from, <<RxPkt>>)
           /\ \A k \in DOMAIN id_map : id_map'[k] = id_map[k]
           /\ Len(sent') = 1
           /\ IsQueryTo(sent'[1],
                        {ROOT_SERVERS[r] : r \in 1..Len(ROOT_SERVERS)},
                        RxPkt) ]_vars

\* C21 (as claimed): the entry of an id stays as it is in every step that
\* is not an iteration on a decoded datagram with that id (the passing of
\* time, a datagram with another id, a dropped datagram, a cache hit), and
\* it is removed only by a step that sends a datagram to its src_addr or
\* that abandons it on a sub-answer whose first record is not an A record.
C21_EntryIsolation ==
    [][ \A x \in DOMAIN id_map :
          /\ ~(Decoded /\ RxId = x)
             => /\ x \in DOMAIN id_map'
                /\ id_map'[x] = id_map[x]
          /\ x \notin DOMAIN id_map'
             => \/ \E i \in 1..Len(sent') : sent'[i].to = id_map[x].src_addr
                \/ /\ Len(id_map[x].packet_stack) > 1
                   /\ RxPkt.answers # <<>>
                   /\ RxPkt.answers[1].type # DNSType_A ]_vars

\* The packet is a query the resolver made itself: a query with one question
\* of type A and class IN and no record.
IsSynthesized(pkt) ==
    /\ pkt.header.qr = 0
    /\ Len(pkt.questions) = 1
    /\ pkt.questions[1].qtype = DNSType_A
    /\ pkt.questions[1].qclass = DNSClass_IN
    /\ pkt.answers = <<>>
    /\ pkt.authorities = <<>>
    /\ pkt.additionals = <<>>

\* C22: every entry is made with the sender of the datagram of the step as
\* src_addr and its packet as the one frame, the bottom frame and src_addr
\* stay as long as the entry does, every frame above the bottom is a query
\* with one question of type A and class IN, and every frame has the id the
\* entry is stored under.
C22_StackShape ==
    /\ [](\A x \in DOMAIN id_map :
            LET stack == id_map[x].packet_stack IN
            /\ Len(stack) >= 1
            /\ \A i \in 1..Len(stack) : stack[i].header.id = x
            /\ \A i \in 2..Len(stack) : IsSynthesized(stack[i]))
    /\ [][ \A x \in DOMAIN id_map' :
             IF x \in DOMAIN id_map
             THEN /\ id_map'[x].src_addr = id_map[x].src_addr
                  /\ id_map'[x].packet_stack[1] = id_map[x].packet_stack[1]
             ELSE /\ Decoded
                  /\ RxId = x
                  /\ id_map'[x] = RdnsData(rcvd'.from, <<RxPkt>>) ]_vars

\* C22 happens: a sub-query has been put on the client's packet, from the
\* sender of a referral that is not the client, while another entry was
\* pending.
C22_Witness ==
    /\ branch = "glueless"
    /\ rcvd.from = Server
    /\ 513 \in DOMAIN id_map
    /\ 1 \in DOMAIN id_map
    /\ id_map[1].src_addr = Client
    /\ Len(id_map[1].packet_stack) = 2
    /\ id_map[1].packet_stack[1] = DNSPacket_from_raw(WireQuery(1)).val
    /\ IsSynthesized(id_map[1].packet_stack[2])

\* The labels are as the claim takes them: none is empty, none holds a dot.
IsPlainName(dn) ==
    \A i \in 1..Len(dn) :
      /\ dn[i] # <<>>
      /\ \A j \in 1..Len(dn[i]) : dn[i][j] # Dot

\* C23 (as claimed): the labels of the presentation form of a name whose
\* labels are not empty and hold no dot, the root (no label) included, are
\* the labels of the name.
C23_NameRoundTrip ==
    (call.fn = "to_domain_name" /\ Len(call.out) = 2 /\ IsPlainName(call.arg))
    => call.out[2] = call.arg

====
